---- MODULE Spec2Model ----
(***************************************************************************)
(* Model of FlightBooking_backend.py: the DB-backed booking workflow       *)
(* (db_create_booking, db_pay_booking, db_cancel_booking), the background  *)
(* demand simulator and the pricing function.                              *)
(*                                                                         *)
(* The tables Flights, Passengers, Bookings and FareHistory hold committed *)
(* rows only.  A session's uncommitted writes live in its own record and   *)
(* reach the tables at commit (MySQL/InnoDB, REPEATABLE READ): a plain     *)
(* SELECT reads committed rows and takes no lock, SELECT ... FOR UPDATE    *)
(* waits for the row lock and reads the latest committed row, an UPDATE    *)
(* waits for the row lock and writes only the columns the ORM saw change.  *)
(* A handler is cut into steps exactly where it can wait for a lock or     *)
(* where another transaction's commit can fall between two of its reads.   *)
(***************************************************************************)
EXTENDS Integers, Sequences, FiniteSets, TLC

\* ---------------------------------------------------------------- bounds
\* Requests issued in one behaviour of two concurrent clients.
MaxRequests == 3
\* Requests issued in one behaviour of a single client.
MaxSeqRequests == 4
\* Requests issued plus simulator passes started in one behaviour of a
\* client beside the running simulator.
MaxSimEvents == 3
\* Seats of the larger flight of the initial data.
MaxSeats == 2
\* Applications of line 407 to one demand value.
MaxDemandPasses == 2
\* Requests of the client of the price endpoint.
MaxPriceRequests == 2
\* Seats of the flight the price endpoint is asked about.
MaxPriceSeats == 10
MaxMemSeats == 2
MaxMemRequests == 3

\* ------------------------------------------------------------ small sets
Clients == {"c1", "c2", "c3"}
\* the clients that send requests of their own choice
Workers == {"c1", "c2"}
FlightIds == {1, 2}
\* flight_id values a request may carry: the two rows and one absent id
ReqFlightIds == FlightIds \cup {3}
NoEmail == "-"
Emails == {"a@x.io", "A@x.io"}
PNRs == {"P1", "P2"}
NoOwner == "-"
SimOwner == "sim"
\* force_payment_success / force_success: None, True, False
ForceValues == {"None", "True", "False"}

\* func.lower(...) / str.lower() on the e-mail values above
Lower(e) == IF e = "A@x.io" THEN "a@x.io" ELSE e

Min(a, b) == IF a <= b THEN a ELSE b
Max(a, b) == IF a >= b THEN a ELSE b

\* ----------------------------------------------------------------- state
VARIABLES
    flights,          \* Flights rows, by flight_id
    passengers,       \* Passengers rows, in insertion order
    bookings,         \* Bookings rows, in insertion order
    fareHistory,      \* FareHistory rows, in insertion order
    flightLock,       \* row lock of each Flights row: its owner
    bookingLock,      \* row lock of a Bookings row, by pnr: its owner
    sess,             \* the request each client is serving, and its session
    nreq,             \* requests issued so far
    sim,              \* the simulator thread: position and its session
    stopEvent,        \* _stop_event
    mem_flights,      \* the in-memory list `flights`, by flight_id
    mem_bookings,     \* the in-memory list `bookings`
    booking_counter,  \* the global booking_counter
    threads           \* the request each thread-pool thread is serving

vars == <<flights, passengers, bookings, fareHistory, flightLock, bookingLock,
          sess, nreq, sim, stopEvent,
          mem_flights, mem_bookings, booking_counter, threads>>

db == <<flights, passengers, bookings, fareHistory>>

\* The state of the in-memory variant (lines 67-113)
mem == <<mem_flights, mem_bookings, booking_counter, threads>>

\* ------------------------------------------------------------- pricing
\* the clock read by dynamic_pricing_from_flight, in hours
utcnow == 0

\* `flight.simulated_demand or 50.0`
DemandOrDefault(d) == IF d = 0 THEN 50 ELSE d

SeatFactorRising(available, total) ==
    IF available * 100 <= 10 * Max(total, 1) THEN 9 ELSE 20

\* seat_factor in tenths; remaining_pct = available / max(total, 1) * 100
SeatFactor(available, total) ==
    LET den == Max(total, 1) IN
    IF available * 100 <= 10 * den THEN 20
    ELSE IF available * 100 <= 30 * den THEN 14
    ELSE IF available * 100 <= 60 * den THEN 10
    ELSE 9

\* time_factor in twentieths
TimeFactor(departure) ==
    LET hours == Max(departure - utcnow, 0) IN
    IF hours <= 6 THEN 30
    ELSE IF hours <= 24 THEN 24
    ELSE IF hours <= 72 THEN 20
    ELSE 17

\* tier_map.get(tier.lower(), 1.0) in twentieths
TierFactor(tier) ==
    CASE tier = "economy" -> 19
      [] tier = "premium" -> 27
      [] OTHER -> 20

\* round half to even of n / d, n >= 0, d > 0
RoundDiv(n, d) ==
    LET q == n \div d
        r == n % d
    IN IF 2 * r < d THEN q
       ELSE IF 2 * r > d THEN q + 1
       ELSE IF q % 2 = 0 THEN q ELSE q + 1

\* The price in cents:
\*   base * (0.8 + demand/100*0.8) * seat * time * tier
\*   = base*100 * (100+demand)/125 * seat/10 * time/20 * tier/20  cents
\*   = base * (100+demand) * seat * time * tier / 5000
\* computed in two parts to stay inside 32 bits.
dynamic_pricing_from_flight(flight) ==
    LET demand == DemandOrDefault(flight.simulated_demand)
        n == flight.base_fare * (100 + demand)
             * SeatFactor(flight.available_seats, flight.total_seats)
        m == TimeFactor(flight.departure_time) * TierFactor(flight.pricing_tier)
        q == n \div 5000
        r == n % 5000
    IN q * m + RoundDiv(r * m, 5000)

\* ------------------------------------------------------------ initial data
SeedFlight(total, base, tier, demand, departure) ==
    [total_seats |-> total, available_seats |-> total, base_fare |-> base,
     pricing_tier |-> tier, simulated_demand |-> demand,
     departure_time |-> departure]

SeedFlights ==
    (1 :> SeedFlight(MaxSeats - 1, 4000, "standard", 60, 6))
    @@ (2 :> SeedFlight(MaxSeats, 4500, "economy", 100, 12))

\* A client's session: the request (op, flight_id, force, pnr), where its
\* handler stands (pc), what its transaction has written but not committed
\* (avail, email and passenger_id of the passenger, price, status) and, once
\* the handler has answered, the HTTP status code.
Idle ==
    [pc |-> "idle", op |-> "-", flight_id |-> 0, force |-> "None", pnr |-> "-",
     avail |-> 0, email |-> NoEmail, passenger_id |-> 0, price |-> 0,
     old_status |-> "-", status |-> "-", code |-> 0, fare_failed |-> FALSE]

SimIdle ==
    [pc |-> "loop", passes |-> 0, rows |-> SeedFlights, new |-> SeedFlights]

\* ------------------------------------------------- in-memory variant: data
\* Lines 67-110, two of the three seeded flights, each with some seats
\* already taken as in the source; seat counts scaled to MaxMemSeats.
MemSeedFlights ==
    [i \in FlightIds |->
        IF i = 1
        THEN [flight_id |-> 1, total_seats |-> MaxMemSeats,
              available_seats |-> MaxMemSeats - 1, base_fare |-> 4000,
              pricing_tier |-> "standard", demand |-> 60, departure |-> 6]
        ELSE [flight_id |-> 2, total_seats |-> MaxMemSeats + 1,
              available_seats |-> MaxMemSeats, base_fare |-> 4500,
              pricing_tier |-> "economy", demand |-> 30, departure |-> 12]]

MemIdle ==
    [pc |-> "idle", flight_id |-> 0, seats |-> 0, price |-> 0,
     booking_id |-> 0, code |-> 0]

\* Lines 67-113 at import: the seeded flights, no bookings, counter 1.
InitMem ==
    /\ mem_flights = MemSeedFlights
    /\ mem_bookings = <<>>
    /\ booking_counter = 1
    /\ threads = [t \in Workers |-> MemIdle]

InitSeats ==
    {a \in [FlightIds -> 0..MaxSeats] :
        \A i \in FlightIds : a[i] <= SeedFlights[i].total_seats}

Init ==
    /\ flights \in {[i \in FlightIds |->
                        [SeedFlights[i] EXCEPT !.available_seats = a[i]]] :
                    a \in InitSeats}
    /\ passengers = <<>>
    /\ bookings = <<>>
    /\ fareHistory = <<>>
    /\ flightLock = [f \in FlightIds |-> NoOwner]
    /\ bookingLock = [p \in PNRs |-> NoOwner]
    /\ sess = [c \in Clients |-> Idle]
    /\ nreq = 0
    /\ sim = SimIdle
    /\ stopEvent = FALSE
    /\ InitMem

\* ------------------------------------------------------- request arrival
\* The payment draw: random.choice(...) when the override is None, else
\* bool(override).
PaymentOutcomes(force) ==
    IF force = "None" THEN BOOLEAN ELSE {force = "True"}

\* A handler returns (or raises HTTPException): the session is closed, its
\* uncommitted work is gone, only the status code and the body remain.
Respond(c, code) ==
    [Idle EXCEPT !.pc = "done", !.op = sess[c].op, !.code = code]

KeepFlightLocks(owner) == flightLock

\* Every row lock the session of `owner` holds is released (commit, rollback).
ReleaseFlightLocks(owner) ==
    [f \in FlightIds |-> IF flightLock[f] = owner THEN NoOwner ELSE flightLock[f]]

ReleaseBookingLocks(owner) ==
    [p \in PNRs |-> IF bookingLock[p] = owner THEN NoOwner ELSE bookingLock[p]]

\* A client sends its next request once the last one is answered.
CanRequest(c) == sess[c].pc \in {"idle", "done"}

\* POST /db/booking arrives with a DBBookingRequest.  flight_id and
\* force_payment_success are fixed here; passenger_email is drawn where the
\* handler first reads it (line 445).
RequestCreate(c) ==
    /\ CanRequest(c)
    /\ \E fid \in ReqFlightIds, force \in ForceValues :
         sess' = [sess EXCEPT ![c] = [Idle EXCEPT !.pc = "cb_lock", !.op = "create",
                     !.flight_id = fid, !.force = force]]
    /\ nreq' = nreq + 1
    /\ UNCHANGED <<mem, db, flightLock, bookingLock, sim, stopEvent>>

\* POST /db/bookings/{pnr}/pay arrives; force_success is drawn where the
\* handler reads it (line 516).
RequestPay(c) ==
    /\ CanRequest(c)
    /\ \E pnr \in PNRs :
         sess' = [sess EXCEPT ![c] = [Idle EXCEPT !.pc = "pay_read", !.op = "pay",
                     !.pnr = pnr]]
    /\ nreq' = nreq + 1
    /\ UNCHANGED <<mem, db, flightLock, bookingLock, sim, stopEvent>>

\* DELETE /db/booking/{pnr} arrives
RequestCancel(c) ==
    /\ CanRequest(c)
    /\ \E pnr \in PNRs :
         sess' = [sess EXCEPT ![c] = [Idle EXCEPT !.pc = "cancel_booking",
                     !.op = "cancel", !.pnr = pnr]]
    /\ nreq' = nreq + 1
    /\ UNCHANGED <<mem, db, flightLock, bookingLock,
                   sim, stopEvent>>

\* ------------------------------------------------------ db_create_booking
\* Line 433, with_for_update(): the SELECT waits until no other transaction
\* holds the flight's row lock.
NoWaitForFlight(fid) == TRUE

FlightRowFree(fid) == flightLock[fid] = NoOwner

SoldOutNever(flight) == FALSE

\* Line 436
SoldOut(flight) == flight.available_seats <= 0

\* Lines 432-441: begin, SELECT ... FOR UPDATE on the flight, the two
\* rejections, the seat decrement and its flush.
CB_LockFlight(c) ==
    LET fid == sess[c].flight_id IN
    /\ sess[c].pc = "cb_lock"
    /\ IF fid \notin DOMAIN flights
       THEN /\ sess' = [sess EXCEPT ![c] = Respond(c, 404)]
            /\ UNCHANGED flightLock
       ELSE /\ FlightRowFree(fid)
            /\ IF SoldOut(flights[fid])
               THEN /\ sess' = [sess EXCEPT ![c] = Respond(c, 400)]
                    /\ UNCHANGED flightLock
               ELSE \E fault \in BOOLEAN :
                      IF fault
                      THEN /\ sess' = [sess EXCEPT ![c] = Respond(c, 500)]
                           /\ UNCHANGED flightLock
                      ELSE /\ sess' = [sess EXCEPT ![c].pc = "cb_passenger",
                                  ![c].avail = flights[fid].available_seats - 1]
                           /\ flightLock' = [flightLock EXCEPT ![fid] = c]
    /\ UNCHANGED <<mem, db, bookingLock, nreq, sim, stopEvent>>

\* The Passengers rows whose e-mail matches, compared in lower case
\* (line 446); no query is made without an e-mail.
MatchingPassengers(email) ==
    IF email = NoEmail THEN {}
    ELSE {i \in DOMAIN passengers :
            /\ passengers[i].email # NoEmail
            /\ Lower(passengers[i].email) = Lower(email)}

PaymentFailureKeepsSeat == FALSE

\* Line 465: what a failed payment does to the transaction.
PaymentFailureRollsBack == TRUE

\* Lines 443-466: look the passenger up or insert one, price the seat, draw
\* the payment.  A failed payment raises inside `with db.begin()`: rollback.
\* passenger_id 0 stands for the row this transaction has inserted and not
\* yet committed.
CB_PassengerAndPayment(c) ==
    /\ sess[c].pc = "cb_passenger"
    /\ \E email \in Emails \cup {NoEmail}, fault \in BOOLEAN,
          payment_success \in PaymentOutcomes(sess[c].force) :
         LET fid == sess[c].flight_id
             found == MatchingPassengers(email)
             price == dynamic_pricing_from_flight(
                         [flights[fid] EXCEPT !.available_seats = sess[c].avail])
         IN
         \E i \in IF found = {} THEN {0} ELSE found :
           /\ fault => found = {}
           /\ IF fault \/ ~payment_success
              THEN /\ sess' = [sess EXCEPT ![c] =
                          Respond(c, IF fault THEN 500 ELSE 402)]
                   /\ flightLock' = ReleaseFlightLocks(c)
                   /\ IF fault \/ PaymentFailureRollsBack
                      THEN UNCHANGED db
                      ELSE /\ flights' = [flights EXCEPT
                                  ![fid].available_seats = sess[c].avail]
                           /\ UNCHANGED <<mem, passengers, bookings, fareHistory>>
              ELSE /\ sess' = [sess EXCEPT ![c].pc = "cb_commit",
                          ![c].email = email,
                          ![c].passenger_id = IF found = {} THEN 0
                                              ELSE passengers[i].passenger_id,
                          ![c].price = price]
                   /\ UNCHANGED <<mem, db, flightLock>>
    /\ UNCHANGED <<mem, bookingLock, nreq, sim, stopEvent>>

PnrNeverInUse(pnr) == FALSE

\* The unique index on Bookings.pnr (line 308) against the committed rows.
PnrInUse(pnr) == \E i \in DOMAIN bookings : bookings[i].pnr = pnr

\* Lines 469-477: the Booking row of a paid request.
NewBooking(c, pnr, passenger_id) ==
    [booking_id |-> Len(bookings) + 1,
     flight_id |-> sess[c].flight_id,
     passenger_id |-> passenger_id,
     status |-> "Confirmed", pnr |-> pnr,
     price_per_seat |-> sess[c].price,
     total_price |-> sess[c].price]

\* Line 392: the FareHistory row record_fare adds.
FareRow(flight_id, price) == [flight_id |-> flight_id, price |-> price]

\* Lines 468-493: generate the PNR, insert the Booking row (the unique index
\* on pnr rejects a duplicate), record_fare, build the response, commit: the
\* seat, the passenger if new, the booking and the fare row become visible
\* together.  A failed flush inside record_fare is followed by db.rollback()
\* (line 396), which ends the whole transaction; reading booking.booking_date
\* for the response then fails and the handler answers 500.
\* Row ids are dense: AUTO_INCREMENT values lost to rollbacks are not kept.
\* The storage errors drawn: none, the flush of the Booking row (line 479)
\* fails, or the flush inside record_fare (line 394) fails; fare_failed
\* records that record_fare caught an exception while serving the request.
InsertFaults == {"none", "booking", "fare"}

CB_InsertAndCommit(c) ==
    /\ sess[c].pc = "cb_commit"
    /\ \E pnr \in PNRs, fault \in InsertFaults :
         LET new_passenger == sess[c].passenger_id = 0
             passenger_id == IF new_passenger THEN Len(passengers) + 1
                             ELSE sess[c].passenger_id
             duplicate == PnrInUse(pnr)
         IN
         IF fault # "none" \/ duplicate
         THEN /\ sess' = [sess EXCEPT ![c] =
                     [Respond(c, 500) EXCEPT
                        !.fare_failed = (fault = "fare" /\ ~duplicate)]]
              /\ UNCHANGED db
         ELSE /\ sess' = [sess EXCEPT ![c] = Respond(c, 201)]
              /\ flights' = [flights EXCEPT
                     ![sess[c].flight_id].available_seats = sess[c].avail]
              /\ passengers' = IF new_passenger
                               THEN Append(passengers,
                                      [passenger_id |-> passenger_id,
                                       email |-> sess[c].email])
                               ELSE passengers
              /\ bookings' = Append(bookings, NewBooking(c, pnr, passenger_id))
              /\ fareHistory' = Append(fareHistory,
                                   FareRow(sess[c].flight_id, sess[c].price))
    /\ flightLock' = ReleaseFlightLocks(c)
    /\ UNCHANGED <<mem, bookingLock, nreq, sim, stopEvent>>

FirstBooking(pnr) == IF bookings = <<>> THEN 0 ELSE 1

\* --------------------------------------------------------- db_pay_booking
\* The index in Bookings of the row with this pnr (0: none); pnr is unique.
BookingByPnr(pnr) ==
    IF PnrInUse(pnr)
    THEN CHOOSE i \in DOMAIN bookings : bookings[i].pnr = pnr
    ELSE 0

PayNeverNoOp(status) == FALSE

\* Line 504: the only status the retry leaves alone.
PayIsNoOp(status) == status = "Confirmed"

\* Line 517: the status the retry writes.
PayStatus(payment_success) ==
    IF payment_success THEN "Confirmed" ELSE "PAYMENT_FAILED"

\* Lines 501-517: a plain SELECT of the booking (no lock), 404 when absent,
\* the current row when it is Confirmed, else the payment draw and the new
\* status, still uncommitted.
Pay_Read(c) ==
    LET i == BookingByPnr(sess[c].pnr) IN
    /\ sess[c].pc = "pay_read"
    /\ IF i = 0
       THEN sess' = [sess EXCEPT ![c] = Respond(c, 404)]
       ELSE IF PayIsNoOp(bookings[i].status)
       THEN sess' = [sess EXCEPT ![c] = Respond(c, 200)]
       ELSE \E force \in ForceValues : \E payment_success \in PaymentOutcomes(force) :
              sess' = [sess EXCEPT ![c].pc = "pay_commit",
                          ![c].old_status = bookings[i].status,
                          ![c].status = PayStatus(payment_success)]
    /\ UNCHANGED <<mem, db, flightLock, bookingLock,
                   nreq, sim, stopEvent>>

\* Lines 518-529: db.commit() flushes UPDATE Bookings SET status when the
\* status was changed (the UPDATE waits for the row lock) and commits; the
\* response reads the row back.  A storage error leaves the row as it was
\* and the request fails with 500.
Pay_Commit(c) ==
    LET i == BookingByPnr(sess[c].pnr)
        dirty == sess[c].status # sess[c].old_status
    IN
    /\ sess[c].pc = "pay_commit"
    /\ dirty => bookingLock[sess[c].pnr] = NoOwner
    /\ \E fault \in BOOLEAN :
         IF fault
         THEN /\ sess' = [sess EXCEPT ![c] = Respond(c, 500)]
              /\ UNCHANGED bookings
         ELSE /\ bookings' = IF dirty
                             THEN [bookings EXCEPT ![i].status = sess[c].status]
                             ELSE bookings
              /\ sess' = [sess EXCEPT ![c] = Respond(c, 200)]
    /\ UNCHANGED <<mem, flights, passengers, fareHistory, flightLock, bookingLock, nreq, sim, stopEvent>>

\* ------------------------------------------------------ db_cancel_booking
\* Line 538: the only status a cancellation refuses.
CancelRefused(status) == status = "Cancelled"

\* Line 543: the seat count written back.
ReleasedSeatsUncapped(flight) == flight.available_seats + 1

ReleasedSeatsNone(flight) == flight.available_seats

ReleasedSeats(flight) == Min(flight.total_seats, flight.available_seats + 1)

\* Lines 534-539: begin, SELECT ... FOR UPDATE on the booking, 404 when
\* absent, 400 when it is already Cancelled (the rollback drops the lock).
NoWaitForBooking(pnr) == TRUE

\* Line 535, with_for_update(): the SELECT waits until no other transaction
\* holds the booking's row lock.
BookingRowFree(pnr) == bookingLock[pnr] = NoOwner

Cancel_LockBooking(c) ==
    LET i == BookingByPnr(sess[c].pnr) IN
    /\ sess[c].pc = "cancel_booking"
    /\ IF i = 0
       THEN /\ sess' = [sess EXCEPT ![c] = Respond(c, 404)]
            /\ UNCHANGED bookingLock
       ELSE /\ BookingRowFree(sess[c].pnr)
            /\ IF CancelRefused(bookings[i].status)
               THEN /\ sess' = [sess EXCEPT ![c] = Respond(c, 400)]
                    /\ UNCHANGED bookingLock
               ELSE /\ sess' = [sess EXCEPT ![c].pc = "cancel_flight",
                                   ![c].flight_id = bookings[i].flight_id]
                    /\ bookingLock' = [bookingLock EXCEPT ![sess[c].pnr] = c]
    /\ UNCHANGED <<mem, db, flightLock, nreq, sim, stopEvent>>

\* Lines 540-546: SELECT ... FOR UPDATE on the flight, release one seat
\* capped at total_seats, mark the booking Cancelled, commit both.  A storage
\* error rolls both back (line 549).
Cancel_ReleaseAndCommit(c) ==
    LET i == BookingByPnr(sess[c].pnr)
        fid == sess[c].flight_id
    IN
    /\ sess[c].pc = "cancel_flight"
    /\ IF fid \notin DOMAIN flights
       THEN /\ sess' = [sess EXCEPT ![c] = Respond(c, 500)]
            /\ UNCHANGED <<mem, flights, bookings>>
       ELSE /\ flightLock[fid] = NoOwner
            /\ \E fault \in BOOLEAN :
                 IF fault
                 THEN /\ sess' = [sess EXCEPT ![c] = Respond(c, 500)]
                      /\ UNCHANGED <<mem, flights, bookings>>
                 ELSE /\ flights' = [flights EXCEPT ![fid].available_seats =
                                        ReleasedSeats(flights[fid])]
                      /\ bookings' = [bookings EXCEPT ![i].status = "Cancelled"]
                      /\ sess' = [sess EXCEPT ![c] = Respond(c, 200)]
    /\ bookingLock' = ReleaseBookingLocks(c)
    /\ UNCHANGED <<mem, passengers, fareHistory, flightLock, nreq, sim, stopEvent>>

\* ------------------------------------------------------- db_dynamic_price
\* GET /db/dynamic_price/{flight_id} arrives
RequestPrice(c) ==
    /\ CanRequest(c)
    /\ \E fid \in ReqFlightIds :
         sess' = [sess EXCEPT ![c] = [Idle EXCEPT !.pc = "dp_read", !.op = "price",
                     !.flight_id = fid]]
    /\ nreq' = nreq + 1
    /\ UNCHANGED <<mem, db, flightLock, bookingLock, sim, stopEvent>>

\* Whether closing the session (get_db, line 351) commits rows that were
\* flushed and not committed: it rolls them back.
CloseCommitsPending == FALSE

\* Lines 589-605 and get_db's finally: a plain SELECT of the flight, 404
\* when there is none; the price; record_fare flushes a FareHistory row, or
\* fails and rolls back (the exception is swallowed); the response carries
\* the price.  Nothing commits, and db.close() ends the transaction.
DP_PriceAndRespond(c) ==
    LET fid == sess[c].flight_id IN
    /\ sess[c].pc = "dp_read"
    /\ IF fid \notin DOMAIN flights
       THEN /\ sess' = [sess EXCEPT ![c] = Respond(c, 404)]
            /\ UNCHANGED fareHistory
       ELSE \E fault \in BOOLEAN :
              LET price == dynamic_pricing_from_flight(flights[fid]) IN
              /\ sess' = [sess EXCEPT ![c] =
                     [Respond(c, 200) EXCEPT !.flight_id = fid, !.price = price,
                                             !.fare_failed = fault]]
              /\ fareHistory' = IF ~fault /\ CloseCommitsPending
                                THEN Append(fareHistory, FareRow(fid, price))
                                ELSE fareHistory
    /\ UNCHANGED <<mem, flights, passengers, bookings, flightLock, bookingLock, nreq,
                   sim, stopEvent>>

\* ---------------------------------------------------- background_simulator
\* random.randint(-8, 10): the values the model draws
SimDeltas == {10}

\* Line 407
SimDemand(demand, delta) ==
    Max(0, Min(100, (IF demand = 0 THEN 50 ELSE demand) + delta))

\* The seat draws of lines 408-412 for a row with `available` seats:
\* -d is the first branch with dec = d, 1 the elif branch, 0 neither.
SeatMoves(available) ==
    {0, 1} \cup (IF available > 0 THEN {0 - d : d \in 1..Min(3, available)} ELSE {})

\* Lines 408-412
SimSeats(flight, move) ==
    IF move < 0 THEN Max(0, flight.available_seats + move)
    ELSE IF move = 1 THEN Min(flight.total_seats, flight.available_seats + 1)
    ELSE flight.available_seats

\* Lines 402-412: the loop test, a plain SELECT of every flight (no lock) and
\* the new demand and seat count of each, still uncommitted.
Sim_Read ==
    /\ sim.pc = "loop"
    /\ ~stopEvent
    /\ nreq + sim.passes < MaxSimEvents
    /\ \E delta \in [FlightIds -> SimDeltas], move \in [FlightIds -> -3..1] :
         /\ \A f \in FlightIds : move[f] \in SeatMoves(flights[f].available_seats)
         /\ sim' = [pc |-> "flush", passes |-> sim.passes + 1, rows |-> flights,
                    new |-> [f \in FlightIds |->
                               [flights[f] EXCEPT
                                  !.simulated_demand = SimDemand(@, delta[f]),
                                  !.available_seats = SimSeats(flights[f], move[f])]]]
    /\ UNCHANGED <<mem, db, flightLock, bookingLock,
                   sess, nreq, stopEvent>>

\* The rows the pass changed: only these get an UPDATE at line 413.
SimDirty == {f \in FlightIds : sim.new[f] # sim.rows[f]}

\* The UPDATEs go out in primary-key order, each waiting for its row lock.
SimNextToLock ==
    {f \in SimDirty : /\ flightLock[f] # SimOwner
                      /\ \A g \in SimDirty : g < f => flightLock[g] = SimOwner}

Sim_Flush ==
    /\ sim.pc = "flush"
    /\ \E f \in SimNextToLock :
         /\ flightLock[f] = NoOwner
         /\ flightLock' = [flightLock EXCEPT ![f] = SimOwner]
    /\ UNCHANGED <<mem, db, bookingLock, sess, nreq,
                   sim, stopEvent>>

\* The row an UPDATE of the pass leaves: the changed columns take the pass's
\* values, the others keep what is committed.
SimWrite(row, old, new) ==
    [row EXCEPT
       !.simulated_demand = IF new.simulated_demand # old.simulated_demand
                            THEN new.simulated_demand ELSE @,
       !.available_seats = IF new.available_seats # old.available_seats
                           THEN new.available_seats ELSE @]

\* Line 413: every UPDATE is through, the pass commits.
Sim_Commit ==
    /\ sim.pc = "flush"
    /\ SimNextToLock = {}
    /\ flights' = [f \in FlightIds |-> SimWrite(flights[f], sim.rows[f], sim.new[f])]
    /\ flightLock' = ReleaseFlightLocks(SimOwner)
    /\ sim' = [SimIdle EXCEPT !.pc = "wait", !.passes = sim.passes]
    /\ UNCHANGED <<mem, passengers, bookings, fareHistory, bookingLock, sess, nreq, stopEvent>>

\* Lines 414-417 without the except branch: the exception ends the thread.
Sim_Crash ==
    /\ sim.pc = "flush"
    /\ flightLock' = ReleaseFlightLocks(SimOwner)
    /\ sim' = [SimIdle EXCEPT !.pc = "stopped", !.passes = sim.passes]
    /\ UNCHANGED <<mem, db, bookingLock, sess, nreq, stopEvent>>

\* Lines 414-417: an exception anywhere in the pass rolls the pass back.
Sim_Fail ==
    /\ sim.pc = "flush"
    /\ flightLock' = ReleaseFlightLocks(SimOwner)
    /\ sim' = [SimIdle EXCEPT !.pc = "wait", !.passes = sim.passes]
    /\ UNCHANGED <<mem, db, bookingLock, sess, nreq,
                   stopEvent>>

\* Line 418: _stop_event.wait(interval_seconds) returns.
Sim_Wait ==
    /\ sim.pc = "wait"
    /\ sim' = [sim EXCEPT !.pc = "loop"]
    /\ UNCHANGED <<mem, db, flightLock, bookingLock,
                   sess, nreq, stopEvent>>

\* Line 402 with the event set: the thread ends.
Sim_Exit ==
    /\ sim.pc = "loop"
    /\ stopEvent
    /\ sim' = [sim EXCEPT !.pc = "stopped"]
    /\ UNCHANGED <<mem, db, flightLock, bookingLock,
                   sess, nreq, stopEvent>>

\* Lines 424-426: shutdown sets the event.
stop_background ==
    /\ ~stopEvent
    /\ stopEvent' = TRUE
    /\ UNCHANGED <<mem, db, flightLock, bookingLock,
                   sess, nreq, sim>>

\* ---------------------------------------------------------- specifications
ClientStep(c) ==
    \/ RequestCreate(c)
    \/ RequestPay(c)
    \/ RequestCancel(c)
    \/ CB_LockFlight(c)
    \/ CB_PassengerAndPayment(c)
    \/ CB_InsertAndCommit(c)
    \/ Pay_Read(c)
    \/ Pay_Commit(c)
    \/ Cancel_LockBooking(c)
    \/ Cancel_ReleaseAndCommit(c)

\* A pass of the simulator while _stop_event is unset.
SimStep ==
    \/ Sim_Read
    \/ Sim_Flush
    \/ Sim_Commit
    \/ Sim_Fail
    \/ Sim_Wait

\* One client and the simulator thread.
Next ==
    \/ ClientStep("c1") /\ nreq' + sim.passes <= MaxSimEvents
    \/ SimStep

Spec == Init /\ [][Next]_vars

\* Two concurrent clients; the simulator thread is not running.
NextNoSim == \E c \in Workers : ClientStep(c) /\ nreq' <= MaxRequests

SpecNoSim == Init /\ [][NextNoSim]_vars

\* One client, its requests one after the other; no simulator.
NextSeq == ClientStep("c1") /\ nreq' <= MaxSeqRequests

SpecSeq == Init /\ [][NextSeq]_vars

\* Two concurrent clients that book and cancel only.
BookCancelStep(c) ==
    \/ RequestCreate(c)
    \/ RequestCancel(c)
    \/ CB_LockFlight(c)
    \/ CB_PassengerAndPayment(c)
    \/ CB_InsertAndCommit(c)
    \/ Cancel_LockBooking(c)
    \/ Cancel_ReleaseAndCommit(c)

NextBookCancel == \E c \in Workers : BookCancelStep(c) /\ nreq' <= MaxRequests

SpecBookCancel == Init /\ [][NextBookCancel]_vars

\* The race for the last seat: flight 1 has exactly one seat left, there is
\* no booking yet, and every client has sent POST /db/booking for flight 1
\* with force_payment_success=true; nothing else is sent.
InitRace ==
    /\ flights \in {[i \in FlightIds |->
                        [SeedFlights[i] EXCEPT !.available_seats = a[i]]] :
                    a \in {x \in InitSeats : x[1] = 1}}
    /\ passengers = <<>>
    /\ bookings = <<>>
    /\ fareHistory = <<>>
    /\ flightLock = [f \in FlightIds |-> NoOwner]
    /\ bookingLock = [p \in PNRs |-> NoOwner]
    /\ sess = [c \in Clients |-> [Idle EXCEPT !.pc = "cb_lock", !.op = "create",
                                       !.flight_id = 1, !.force = "True"]]
    /\ nreq = Cardinality(Clients)
    /\ sim = SimIdle
    /\ stopEvent = FALSE
    /\ InitMem

NextRace ==
    \E c \in Clients :
        \/ CB_LockFlight(c)
        \/ CB_PassengerAndPayment(c)
        \/ CB_InsertAndCommit(c)

SpecRace == InitRace /\ [][NextRace]_vars

\* The simulator thread from start to shutdown on the initial data with
\* every seat free, beside one client that sends one booking request.  The
\* thread is scheduled as long as it can take a step; nothing is assumed
\* about the client or about when shutdown comes.
SimThread ==
    \/ Sim_Read
    \/ Sim_Flush
    \/ Sim_Commit
    \/ Sim_Fail
    \/ Sim_Wait
    \/ Sim_Exit

CreateOnlyStep(c) ==
    \/ RequestCreate(c)
    \/ CB_LockFlight(c)
    \/ CB_PassengerAndPayment(c)
    \/ CB_InsertAndCommit(c)

InitLive == Init /\ flights = SeedFlights

NextLive ==
    \/ SimThread
    \/ stop_background
    \/ CreateOnlyStep("c1") /\ nreq' = 1

SpecLive == InitLive /\ [][NextLive]_vars /\ WF_vars(SimThread)

\* The price endpoint alone, called by one client, on a Flights table whose
\* first row is any of the snapshots below.
PriceBases == {1, 3, 2999, 4000}
PriceDemands == {0, 1, 50, 55, 60, 100}
PriceDepartures == {0 - 5, 6, 7, 24, 25, 72, 73}
PriceTiers == {"economy", "standard", "premium", "vip"}

PriceSeatings ==
    {st \in (0..MaxPriceSeats) \X {0, 1, MaxPriceSeats} : st[1] <= st[2]}

PriceFlights ==
    {[total_seats |-> st[2], available_seats |-> st[1], base_fare |-> b,
      pricing_tier |-> t, simulated_demand |-> d, departure_time |-> h] :
        st \in PriceSeatings, b \in PriceBases, t \in PriceTiers,
        d \in PriceDemands, h \in PriceDepartures}

InitPrice ==
    /\ flights \in {[i \in FlightIds |-> IF i = 1 THEN f ELSE SeedFlights[i]] :
                    f \in PriceFlights}
    /\ passengers = <<>>
    /\ bookings = <<>>
    /\ fareHistory = <<>>
    /\ flightLock = [f \in FlightIds |-> NoOwner]
    /\ bookingLock = [p \in PNRs |-> NoOwner]
    /\ sess = [c \in Clients |-> Idle]
    /\ nreq = 0
    /\ sim = SimIdle
    /\ stopEvent = FALSE
    /\ InitMem

NextPrice ==
    \/ RequestPrice("c1") /\ nreq' <= MaxPriceRequests
    \/ DP_PriceAndRespond("c1")

SpecPrice == InitPrice /\ [][NextPrice]_vars

\* Line 407 alone: the demand of flight 1, from any value in 0..100, is
\* replaced by what one pass computes from it, for any draw of
\* random.randint(-8, 10).
DemandDeltas == (0 - 8)..10

InitDemand ==
    /\ flights \in {[SeedFlights EXCEPT ![1].simulated_demand = d] : d \in 0..100}
    /\ passengers = <<>>
    /\ bookings = <<>>
    /\ fareHistory = <<>>
    /\ flightLock = [f \in FlightIds |-> NoOwner]
    /\ bookingLock = [p \in PNRs |-> NoOwner]
    /\ sess = [c \in Clients |-> Idle]
    /\ nreq = 0
    /\ sim = SimIdle
    /\ stopEvent = FALSE
    /\ InitMem

NextDemand ==
    /\ sim.passes < MaxDemandPasses
    /\ \E delta \in DemandDeltas :
         flights' = [flights EXCEPT ![1].simulated_demand = SimDemand(@, delta)]
    /\ sim' = [sim EXCEPT !.passes = @ + 1]
    /\ UNCHANGED <<mem, passengers, bookings, fareHistory, flightLock, bookingLock,
                   sess, nreq, stopEvent>>

SpecDemand == InitDemand /\ [][NextDemand]_vars

\* Two concurrent clients and the simulator thread, all contending for row
\* locks.  The tables hold one earlier booking, P1 on flight 1, so that a
\* cancellation has a row to lock from the first request on.  Every handler
\* that has started and the simulator thread are scheduled; each client sends
\* at most one request and the simulator makes at most one pass, whether and
\* when is left open.
LockedFlights ==
    [i \in FlightIds |->
        IF i = 1 THEN [SeedFlights[i] EXCEPT !.available_seats = @ - 1]
        ELSE SeedFlights[i]]

InitLocks ==
    /\ flights = LockedFlights
    /\ passengers = <<[passenger_id |-> 1, email |-> "a@x.io"]>>
    /\ bookings = <<[booking_id |-> 1, flight_id |-> 1, passenger_id |-> 1,
                     status |-> "Confirmed", pnr |-> "P1",
                     price_per_seat |-> dynamic_pricing_from_flight(LockedFlights[1]),
                     total_price |-> dynamic_pricing_from_flight(LockedFlights[1])]>>
    /\ fareHistory = <<FareRow(1, dynamic_pricing_from_flight(LockedFlights[1]))>>
    /\ flightLock = [f \in FlightIds |-> NoOwner]
    /\ bookingLock = [p \in PNRs |-> NoOwner]
    /\ sess = [c \in Clients |-> Idle]
    /\ nreq = 0
    /\ sim = SimIdle
    /\ stopEvent = FALSE
    /\ InitMem

HandlerStep(c) ==
    \/ CB_LockFlight(c)
    \/ CB_PassengerAndPayment(c)
    \/ CB_InsertAndCommit(c)
    \/ Pay_Read(c)
    \/ Pay_Commit(c)
    \/ Cancel_LockBooking(c)
    \/ Cancel_ReleaseAndCommit(c)

OneRequestStep(c) ==
    /\ ClientStep(c)
    /\ nreq' + sim.passes <= MaxSimEvents
    /\ nreq' # nreq => sess[c].pc = "idle"

OnePassStep == SimStep /\ sim'.passes <= 1

NextLocks ==
    \/ \E c \in Workers : OneRequestStep(c)
    \/ OnePassStep

SpecLocks ==
    /\ InitLocks
    /\ [][NextLocks]_vars
    /\ \A c \in Workers : WF_vars(HandlerStep(c))
    /\ WF_vars(OnePassStep)

\* ------------------------------------- in-memory variant: create_booking
\* Lines 115-126, the price in cents:
\*   base * (1 + demand/100) * seat * time * tier
\* with the seat, time and tier factors in tenths.
dynamic_pricing(f) ==
    LET seat_factor == IF 10 * f.available_seats < 3 * f.total_seats THEN 15 ELSE 10
        time_factor == IF Max(f.departure - utcnow, 0) < 12 THEN 13 ELSE 10
        tier_factor == CASE f.pricing_tier = "economy" -> 9
                         [] f.pricing_tier = "premium" -> 12
                         [] OTHER -> 10
    IN RoundDiv(f.base_fare * (100 + f.demand) * seat_factor * time_factor * tier_factor,
                1000)

\* BookingIn (lines 53-56): `seats: int`, any integer, and a flight_id that
\* may name no flight.
MemSeatValues == (0 - MaxMemSeats)..MaxMemSeats
MemReqFlightIds == FlightIds \cup {4}

\* A thread of the pool takes a POST /book request.
Mem_Request(t) ==
    /\ threads[t].pc \in {"idle", "done"}
    /\ nreq < MaxMemRequests
    /\ nreq' = nreq + 1
    /\ \E fid \in MemReqFlightIds, n \in MemSeatValues :
         threads' = [threads EXCEPT
                       ![t] = [MemIdle EXCEPT !.pc = "check", !.flight_id = fid,
                                              !.seats = n]]
    /\ UNCHANGED <<db, flightLock, bookingLock, sess, sim, stopEvent,
                   mem_flights, mem_bookings, booking_counter>>

MemRespond(t, code) == [threads[t] EXCEPT !.pc = "done", !.code = code]

\* Line 204
NotEnoughSeats(f, seats) == f.available_seats < seats

\* Lines 202-205 and 222: find the flight, compare the seats.
Mem_Check(t) ==
    /\ threads[t].pc = "check"
    /\ LET r == threads[t] IN
       threads' = [threads EXCEPT ![t] =
           IF r.flight_id \notin FlightIds THEN MemRespond(t, 404)
           ELSE IF NotEnoughSeats(mem_flights[r.flight_id], r.seats)
                THEN MemRespond(t, 400)
                ELSE [r EXCEPT !.pc = "reserve"]]
    /\ UNCHANGED <<db, flightLock, bookingLock, sess, nreq, sim, stopEvent,
                   mem_flights, mem_bookings, booking_counter>>

\* Lines 206-208: the call of dynamic_pricing, where the interpreter may
\* switch threads before it, then the decrement of the seats as they are now.
Mem_Reserve(t) ==
    /\ threads[t].pc = "reserve"
    /\ LET r == threads[t]
           f == mem_flights[r.flight_id]
       IN /\ mem_flights' = [mem_flights EXCEPT
                               ![r.flight_id].available_seats = @ - r.seats]
          /\ threads' = [threads EXCEPT
                           ![t] = [r EXCEPT !.pc = "construct",
                                            !.price = dynamic_pricing(f)]]
    /\ UNCHANGED <<db, flightLock, bookingLock, sess, nreq, sim, stopEvent,
                   mem_bookings, booking_counter>>

\* Lines 210-218: booking_counter is read as an argument, then BookingOut is
\* called, where the interpreter may switch threads.
Mem_Construct(t) ==
    /\ threads[t].pc = "construct"
    /\ threads' = [threads EXCEPT ![t] = [@ EXCEPT !.pc = "append",
                                                   !.booking_id = booking_counter]]
    /\ UNCHANGED <<db, flightLock, bookingLock, sess, nreq, sim, stopEvent,
                   mem_flights, mem_bookings, booking_counter>>

\* Lines 210-218, the booking built
BookingOut(r) ==
    [booking_id |-> r.booking_id, flight_id |-> r.flight_id, seats |-> r.seats,
     price_per_seat |-> r.price, total_price |-> r.price * r.seats,
     status |-> "CONFIRMED"]

\* Lines 219-221
Mem_Append(t) ==
    /\ threads[t].pc = "append"
    /\ mem_bookings' = Append(mem_bookings, BookingOut(threads[t]))
    /\ booking_counter' = booking_counter + 1
    /\ threads' = [threads EXCEPT ![t] = MemRespond(t, 200)]
    /\ UNCHANGED <<db, flightLock, bookingLock, sess, nreq, sim, stopEvent,
                   mem_flights>>

create_booking(t) ==
    \/ Mem_Request(t)
    \/ Mem_Check(t)
    \/ Mem_Reserve(t)
    \/ Mem_Construct(t)
    \/ Mem_Append(t)

\* Two threads of the pool serving POST /book.
InitMemOnly == Init /\ flights = SeedFlights

NextMem == \E t \in Workers : create_booking(t)

SpecMem == InitMemOnly /\ [][NextMem]_vars

\* ------------------------------------------------------------------ claims
ConfirmedBookings(f) ==
    {i \in DOMAIN bookings : bookings[i].flight_id = f /\ bookings[i].status = "Confirmed"}

\* C1: in every reachable state, under any interleaving of the request
\* handlers and the simulator's passes, every flight has
\* 0 <= available_seats <= total_seats.
C1_SeatsWithinBounds ==
    \A f \in FlightIds :
        /\ 0 <= flights[f].available_seats
        /\ flights[f].available_seats <= flights[f].total_seats

\* A booking was made and cancelled and a simulator pass has committed.
C1_Witness ==
    /\ \E i \in DOMAIN bookings : bookings[i].status = "Cancelled"
    /\ \E f \in FlightIds : flights[f].simulated_demand # SeedFlights[f].simulated_demand

\* C2 (as claimed): the Confirmed bookings of a flight never outnumber the
\* seats debited from it, total_seats - available_seats.
C2_NeverOversold ==
    \A f \in FlightIds :
        Cardinality(ConfirmedBookings(f))
            <= flights[f].total_seats - flights[f].available_seats

\* A booking was made, cancelled and paid again.
C2_Witness ==
    /\ sess["c1"].pc = "done" /\ sess["c1"].op = "pay" /\ sess["c1"].code = 200
    /\ \E i \in DOMAIN bookings : bookings[i].status = "Confirmed"
    /\ nreq >= 3

Answered(c, op, code) ==
    sess[c].pc = "done" /\ sess[c].op = op /\ sess[c].code = code

\* C3: of the concurrent createBooking requests for the one remaining seat
\* of flight 1, never two are answered 201; once all are answered and none
\* met a storage error, exactly one was answered 201, every other one 400,
\* and available_seats of the flight is 0.
C3_OneWinner ==
    LET won == {c \in Clients : Answered(c, "create", 201)}
        done == {c \in Clients : sess[c].pc = "done"}
    IN
    /\ Cardinality(won) <= 1
    /\ \A c \in done : sess[c].code \in {201, 400, 500}
    /\ won # {} => flights[1].available_seats = 0
    /\ (done = Clients /\ \A c \in Clients : sess[c].code # 500) =>
          /\ Cardinality(won) = 1
          /\ \A c \in Clients \ won : sess[c].code = 400
          /\ flights[1].available_seats = 0
          /\ Cardinality(ConfirmedBookings(1)) = 1

\* Every request of the race is answered, one with 201 and the others with 400.
C3_Witness ==
    /\ \A c \in Clients : sess[c].pc = "done" /\ sess[c].code \in {201, 400}
    /\ \E c \in Clients : sess[c].code = 201
    /\ \E c \in Clients : sess[c].code = 400

\* C4 (as claimed): when a simulator pass commits a new available_seats for
\* a flight, the committed available_seats of that flight is still the value
\* the pass read: no booking or cancellation committed on it in between.
C4_SimulatorExclusive ==
    [][(sim.pc = "flush" /\ sim'.pc = "wait" /\ flights' # flights) =>
          \A f \in FlightIds :
              sim.new[f].available_seats # sim.rows[f].available_seats =>
                  flights[f].available_seats = sim.rows[f].available_seats]_vars

\* A simulator pass has committed a seat change after a booking committed.
C4_Witness ==
    /\ sim.pc = "wait"
    /\ bookings # <<>>
    /\ \E f \in FlightIds :
          /\ flights[f].simulated_demand # SeedFlights[f].simulated_demand
          /\ Cardinality(ConfirmedBookings(f))
                > flights[f].total_seats - flights[f].available_seats

\* The step of client c is a step of its db_create_booking handler.
CreateStep(c) ==
    /\ sess[c].op = "create"
    /\ sess[c].pc \in {"cb_lock", "cb_passenger", "cb_commit"}
    /\ sess'[c] # sess[c]

\* C5: no step of a createBooking handler other than the one that answers
\* 201 changes a committed row of Flights, Passengers, Bookings or
\* FareHistory; once the seat has been decremented the handler answers only
\* 201, 402 or 500, and 402 exactly when the payment draw failed; a handler
\* that has answered holds no row lock.
C5_FailedCreateRollsBack ==
    [][\A c \in Workers :
          CreateStep(c) =>
              /\ ~(sess'[c].pc = "done" /\ sess'[c].code = 201) => db' = db
              /\ sess'[c].pc = "done" =>
                    /\ \A f \in FlightIds : flightLock'[f] # c
                    /\ sess[c].pc # "cb_lock" => sess'[c].code \in {201, 402, 500}
                    /\ sess[c].pc = "cb_lock" => sess'[c].code \in {400, 404, 500}
                    /\ sess'[c].code = 402 =>
                          /\ sess[c].pc = "cb_passenger"
                          /\ FALSE \in PaymentOutcomes(sess[c].force)]_vars

\* A createBooking was answered 402, another one 500.
C5_Witness ==
    /\ Answered("c1", "create", 402)
    /\ Answered("c2", "create", 500)

\* C6: the step that answers a createBooking with 201 takes exactly one seat
\* of the requested flight and changes no other column of any flight, appends
\* exactly one Booking row (Confirmed, for that flight, total_price equal to
\* price_per_seat, a PNR no earlier row has) and appends exactly one
\* FareHistory row for that flight with the booking's price_per_seat.
C6_SuccessfulCreateEffect ==
    [][\A c \in Workers :
          (CreateStep(c) /\ sess'[c].pc = "done" /\ sess'[c].code = 201) =>
              LET fid == sess[c].flight_id
                  new == bookings'[Len(bookings')]
              IN
              /\ flights' = [flights EXCEPT
                                ![fid].available_seats = flights[fid].available_seats - 1]
              /\ Len(bookings') = Len(bookings) + 1
              /\ SubSeq(bookings', 1, Len(bookings)) = bookings
              /\ new.status = "Confirmed"
              /\ new.flight_id = fid
              /\ new.total_price = new.price_per_seat
              /\ \A i \in DOMAIN bookings : bookings[i].pnr # new.pnr
              /\ fareHistory' = Append(fareHistory,
                                   [flight_id |-> fid, price |-> new.price_per_seat])
              /\ Len(passengers') \in {Len(passengers), Len(passengers) + 1}]_vars

\* Two bookings were created.
C6_Witness ==
    /\ Answered("c1", "create", 201)
    /\ Len(bookings) = 2
    /\ Len(fareHistory) = 2

\* C7: with bookings and cancellations only, every step keeps
\* available_seats plus the number of Confirmed bookings of each flight
\* unchanged: a booking takes one seat, its cancellation gives exactly that
\* seat back, and the seat and the status change in the same commit.
C7_BookThenCancelRestores ==
    [][\A f \in FlightIds :
          flights'[f].available_seats
              + Cardinality({i \in DOMAIN bookings' :
                    bookings'[i].flight_id = f /\ bookings'[i].status = "Confirmed"})
          = flights[f].available_seats + Cardinality(ConfirmedBookings(f))]_vars

\* A booking was created and then cancelled.
C7_Witness ==
    /\ Answered("c1", "cancel", 200)
    /\ \E i \in DOMAIN bookings : bookings[i].status = "Cancelled"

\* The step of client c answers its cancelBooking request.
CancelAnswer(c) ==
    /\ sess[c].op = "cancel"
    /\ sess[c].pc \in {"cancel_booking", "cancel_flight"}
    /\ sess'[c].pc = "done"

\* C8: a cancelBooking answered 200 finds its booking Confirmed, marks it
\* Cancelled and releases exactly one seat of its flight in the same step; a
\* cancelBooking answered 400 is for a Cancelled booking and changes nothing;
\* a Cancelled booking stays Cancelled, so one PNR is cancelled with success
\* at most once.
C8_SecondCancelRefused ==
    [][/\ \A i \in DOMAIN bookings :
             bookings[i].status = "Cancelled" => bookings'[i].status = "Cancelled"
       /\ \A c \in Workers :
             CancelAnswer(c) =>
                 LET i == BookingByPnr(sess[c].pnr) IN
                 /\ sess'[c].code \in {200, 400, 404, 500}
                 /\ sess'[c].code = 200 =>
                       /\ i # 0
                       /\ bookings[i].status = "Confirmed"
                       /\ bookings' = [bookings EXCEPT ![i].status = "Cancelled"]
                       /\ flights' = [flights EXCEPT
                              ![bookings[i].flight_id].available_seats = @ + 1]
                 /\ sess'[c].code = 400 =>
                       /\ i # 0
                       /\ bookings[i].status = "Cancelled"
                       /\ db' = db
                 /\ sess'[c].code \in {404, 500} => db' = db]_vars

\* Both clients asked to cancel the same booking: one was answered 200, the
\* other 400.
C8_Witness ==
    /\ Answered("c1", "cancel", 200)
    /\ Answered("c2", "cancel", 400)
    /\ Len(bookings) = 1

\* C9 (as claimed): a booking becomes Cancelled, and a seat is released for
\* it, only from status Confirmed.
C9_CancelOnlyFromConfirmed ==
    [][\A i \in DOMAIN bookings :
          (bookings'[i].status = "Cancelled" /\ bookings[i].status # "Cancelled")
              => bookings[i].status = "Confirmed"]_vars

\* C10 (as claimed): a Cancelled booking keeps its status; a Confirmed
\* booking only stays Confirmed or becomes Cancelled; a PAYMENT_FAILED
\* booking only stays PAYMENT_FAILED or becomes Confirmed.
C10_StatusMachine ==
    [][\A i \in DOMAIN bookings :
          /\ bookings[i].status = "Cancelled" => bookings'[i].status = "Cancelled"
          /\ bookings[i].status = "Confirmed" =>
                bookings'[i].status \in {"Confirmed", "Cancelled"}
          /\ bookings[i].status = "PAYMENT_FAILED" =>
                bookings'[i].status \in {"PAYMENT_FAILED", "Confirmed"}]_vars

\* A payment retry on a Cancelled booking was answered 200 and left it
\* PAYMENT_FAILED.
C10_Witness ==
    /\ Answered("c1", "pay", 200)
    /\ \E i \in DOMAIN bookings : bookings[i].status = "PAYMENT_FAILED"

\* The step of client c is a step of its db_pay_booking handler.
PayStep(c) ==
    /\ sess[c].op = "pay"
    /\ sess[c].pc \in {"pay_read", "pay_commit"}
    /\ sess'[c] # sess[c]

\* C11: retryPayment on a booking that is Confirmed answers 200 at once,
\* whatever force_success is, and changes no row of any table; on a PNR no
\* booking has it answers 404 and changes no row.
C11_PayConfirmedIsNoOp ==
    [][\A c \in Workers :
          (PayStep(c) /\ sess[c].pc = "pay_read") =>
              LET known == {i \in DOMAIN bookings : bookings[i].pnr = sess[c].pnr} IN
              /\ known = {} =>
                    /\ sess'[c].pc = "done" /\ sess'[c].code = 404
                    /\ db' = db
              /\ (\E i \in known : bookings[i].status = "Confirmed") =>
                    /\ sess'[c].pc = "done" /\ sess'[c].code = 200
                    /\ db' = db
              /\ (sess'[c].pc = "done" /\ sess'[c].code = 404) => known = {}]_vars

\* A booking was created and a payment retry on it was answered 200.
C11_Witness ==
    /\ Answered("c1", "pay", 200)
    /\ nreq = 2
    /\ Len(bookings) = 1
    /\ bookings[1].status = "Confirmed"

\* C12: the first step of createBooking answers 404 for a flight_id no row
\* has and 400 for a flight whose available_seats is 0, in both cases without
\* changing a row of any table; 400 and 404 are answered in no other case.
C12_SoldOutOrUnknownFlight ==
    [][\A c \in Workers :
          (CreateStep(c) /\ sess[c].pc = "cb_lock") =>
              LET fid == sess[c].flight_id IN
              /\ fid \notin FlightIds =>
                    /\ sess'[c].pc = "done" /\ sess'[c].code = 404
                    /\ db' = db
              /\ (fid \in FlightIds /\ flights[fid].available_seats = 0) =>
                    /\ sess'[c].pc = "done" /\ sess'[c].code = 400
                    /\ db' = db
                    /\ flights'[fid].available_seats = 0
              /\ (sess'[c].pc = "done" /\ sess'[c].code = 400) =>
                    (fid \in FlightIds /\ flights[fid].available_seats = 0)
              /\ (sess'[c].pc = "done" /\ sess'[c].code = 404) =>
                    fid \notin FlightIds]_vars

\* One createBooking was answered 400 on a sold-out flight, another 404.
C12_Witness ==
    /\ Answered("c1", "create", 400)
    /\ Answered("c2", "create", 404)
    /\ \E f \in FlightIds : flights[f].available_seats = 0

\* C20: a step of retryPayment changes no Flights, Passengers or FareHistory
\* row, and of the Bookings rows at most the status of the row that has the
\* request's PNR.
C20_PayTouchesOnlyStatus ==
    [][\A c \in Workers :
          PayStep(c) =>
              /\ flights' = flights
              /\ passengers' = passengers
              /\ fareHistory' = fareHistory
              /\ Len(bookings') = Len(bookings)
              /\ \A i \in DOMAIN bookings :
                    bookings'[i] # bookings[i] =>
                        /\ bookings[i].pnr = sess[c].pnr
                        /\ bookings'[i] =
                              [bookings[i] EXCEPT !.status = bookings'[i].status]]_vars

\* A payment retry changed the status of a cancelled booking while the other
\* client was served.
C20_Witness ==
    /\ Answered("c2", "pay", 200)
    /\ Len(bookings) = 1
    /\ bookings[1].status = "PAYMENT_FAILED"
    /\ \A f \in FlightIds : flights[f].available_seats > 0

\* C13 (as claimed): no two Passengers rows carry the same e-mail, compared
\* in lower case, and every booking made with that e-mail refers to the one
\* row that carries it.
C13_OnePassengerPerEmail ==
    \A i, j \in DOMAIN passengers :
        (i # j /\ passengers[i].email # NoEmail /\ passengers[j].email # NoEmail)
            => Lower(passengers[i].email) # Lower(passengers[j].email)

\* Two bookings were created with the same e-mail.
C13_Witness ==
    /\ Len(bookings) = 2
    /\ Len(passengers) = 1
    /\ passengers[1].email # NoEmail
    /\ bookings[1].passenger_id = 1
    /\ bookings[2].passenger_id = 1

\* C14 (as claimed): when the FareHistory insert of record_fare fails in a
\* createBooking that is otherwise successful, the request is still answered
\* 201 and its Booking row and its seat decrement are committed.
C14_FareFailureKeepsBooking ==
    [][\A c \in Workers :
          (CreateStep(c) /\ sess'[c].pc = "done" /\ sess'[c].fare_failed) =>
              /\ sess'[c].code = 201
              /\ Len(bookings') = Len(bookings) + 1
              /\ flights'[sess[c].flight_id].available_seats
                    = flights[sess[c].flight_id].available_seats - 1]_vars

\* record_fare failed in a createBooking, which was answered 500 and left
\* no booking.
C14_Witness ==
    /\ Answered("c1", "create", 500)
    /\ sess["c1"].fare_failed
    /\ bookings = <<>>

\* The step of client c answers its getFlightWithPrice request.
PriceAnswer(c) ==
    /\ sess[c].op = "price"
    /\ sess[c].pc = "dp_read"
    /\ sess'[c].pc = "done"

\* C15 (as claimed): the step that answers getFlightWithPrice with 200
\* leaves exactly one more committed FareHistory row, for that flight and
\* with the price returned; no step removes or changes a committed row.
C15_PriceIsLogged ==
    [][/\ Len(fareHistory') >= Len(fareHistory)
       /\ SubSeq(fareHistory', 1, Len(fareHistory)) = fareHistory
       /\ \A c \in Clients :
             (PriceAnswer(c) /\ sess'[c].code = 200) =>
                 fareHistory' = Append(fareHistory,
                                   [flight_id |-> sess[c].flight_id,
                                    price |-> sess'[c].price])]_vars

\* A price was returned, record_fare did not fail, and the log is empty.
C15_Witness ==
    /\ Answered("c1", "price", 200)
    /\ ~sess["c1"].fare_failed
    /\ sess["c1"].price > 0
    /\ fareHistory = <<>>

\* The price the claim states, in cents: base_fare * (0.8 + demand/100*0.8)
\* * seat_factor * time_factor * tier_factor rounded to two places, with the
\* demand of the row as it is.
C18_ClaimedPrice(flight) ==
    LET n == flight.base_fare * (100 + flight.simulated_demand)
             * SeatFactor(flight.available_seats, flight.total_seats)
        m == TimeFactor(flight.departure_time) * TierFactor(flight.pricing_tier)
    IN (n \div 5000) * m + RoundDiv((n % 5000) * m, 5000)

\* C18 (as claimed): the price returned for a flight is the claimed product
\* of the five factors, for every demand in 0..100.
C18_PriceFormula ==
    \A c \in Clients :
        Answered(c, "price", 200) =>
            sess[c].price = C18_ClaimedPrice(flights[sess[c].flight_id])

\* A price was returned for a flight whose demand is 0.
C18_Witness ==
    /\ Answered("c1", "price", 200)
    /\ sess["c1"].flight_id = 1
    /\ flights[1].simulated_demand = 0

\* C19: with everything but available_seats fixed, the price returned for a
\* flight is at most the price at any smaller available_seats and at least
\* the price at any larger one.
C19_PriceMonotoneInSeats ==
    \A c \in Clients :
        Answered(c, "price", 200) =>
            LET flight == flights[sess[c].flight_id] IN
            \A a \in 0..flight.total_seats :
                LET other == dynamic_pricing_from_flight(
                                 [flight EXCEPT !.available_seats = a])
                IN /\ a <= flight.available_seats => other >= sess[c].price
                   /\ a >= flight.available_seats => other <= sess[c].price

\* A price was returned for a flight in the middle seat band; the same
\* flight sold out costs more, and with every seat free it costs less.
C19_Witness ==
    /\ Answered("c1", "price", 200)
    /\ sess["c1"].flight_id = 1
    /\ flights[1].total_seats = MaxPriceSeats
    /\ dynamic_pricing_from_flight([flights[1] EXCEPT !.available_seats = 0])
          > sess["c1"].price
    /\ dynamic_pricing_from_flight(
           [flights[1] EXCEPT !.available_seats = flights[1].total_seats])
          < sess["c1"].price

\* C16 (as claimed): one pass takes a demand d in 0..100 to
\* clamp(d + delta, 0, 100) for some delta in -8..10; so the demand stays in
\* 0..100, rises by at most 10 and falls by at most 8, from d = 0 too.
C16_DemandStep ==
    [][\A f \in FlightIds :
          LET d == flights[f].simulated_demand
              new == flights'[f].simulated_demand
          IN /\ new \in 0..100
             /\ \E delta \in (0 - 8)..10 : new = Max(0, Min(100, d + delta))
             /\ new - d <= 10
             /\ d - new <= 8]_vars

\* A pass has brought the demand of a flight down to 0 and another pass is
\* still to come.
C16_Witness ==
    /\ sim.passes = 1
    /\ flights[1].simulated_demand = 0

\* C17: a pass ends either with none of its updates committed or with all of
\* them, and changes no other table; after every pass, failed or not, the
\* thread comes back to its loop test; while the stop event is unset and the
\* model's budget of passes is not used up, the next pass is started; once
\* the stop event is set the thread ends.
C17_PassAllOrNothing ==
    /\ [][/\ sim' # sim => <<passengers', bookings', fareHistory'>>
                              = <<passengers, bookings, fareHistory>>
          /\ (sim' # sim /\ ~(sim.pc = "flush" /\ sim'.pc = "wait")) =>
                flights' = flights
          /\ (sim.pc = "flush" /\ sim'.pc = "wait") =>
                \/ flights' = flights
                \/ \A f \in FlightIds :
                      /\ sim.new[f].simulated_demand # sim.rows[f].simulated_demand
                            => flights'[f].simulated_demand = sim.new[f].simulated_demand
                      /\ sim.new[f].available_seats # sim.rows[f].available_seats
                            => flights'[f].available_seats = sim.new[f].available_seats]_vars
    /\ (sim.pc = "flush") ~> (sim.pc = "loop")
    /\ (sim.pc = "loop" /\ ~stopEvent /\ nreq + sim.passes < MaxSimEvents)
          ~> \/ sim.pc = "flush"
             \/ stopEvent
             \/ nreq + sim.passes >= MaxSimEvents
    /\ stopEvent ~> (sim.pc = "stopped")

\* Two passes were started and none committed, and after shutdown the thread
\* has ended.
C17_Witness ==
    /\ sim.pc = "stopped"
    /\ stopEvent
    /\ sim.passes = 2
    /\ \A f \in FlightIds :
          flights[f].simulated_demand = SeedFlights[f].simulated_demand

\* The transactions: the two clients' and the simulator's.
Parties == Workers \cup {SimOwner}

\* The owners of the row locks party p is waiting for.
WaitsFor(p) ==
    IF p = SimOwner
    THEN IF sim.pc = "flush"
         THEN {flightLock[f] : f \in SimNextToLock} \ {NoOwner}
         ELSE {}
    ELSE LET r == sess[p] IN
         CASE r.pc = "cb_lock" /\ r.flight_id \in FlightIds ->
                {flightLock[r.flight_id]} \ {NoOwner}
           [] r.pc = "cancel_booking"
                /\ (\E i \in DOMAIN bookings : bookings[i].pnr = r.pnr) ->
                {bookingLock[r.pnr]} \ {NoOwner}
           [] r.pc = "cancel_flight" ->
                {flightLock[r.flight_id]} \ {NoOwner}
           [] r.pc = "pay_commit" /\ r.status # r.old_status ->
                {bookingLock[r.pnr]} \ {NoOwner}
           [] OTHER -> {}

\* Party p holds row locks only while its transaction is open.
InTransaction(p) ==
    IF p = SimOwner THEN sim.pc = "flush"
    ELSE sess[p].pc \in {"cb_passenger", "cb_commit", "cancel_flight"}

\* C21: every row lock is held by an open transaction; no transaction waits,
\* directly or through others, for a lock it holds itself or for a lock of a
\* transaction that waits for it; and every handler that has started
\* answers, every simulator pass that has started ends.
C21_NoDeadlock ==
    /\ [](/\ \A f \in FlightIds :
               flightLock[f] # NoOwner =>
                   flightLock[f] \in Parties /\ InTransaction(flightLock[f])
          /\ \A n \in PNRs :
               bookingLock[n] # NoOwner =>
                   bookingLock[n] \in Workers /\ InTransaction(bookingLock[n])
          /\ \A p \in Parties :
               /\ p \notin WaitsFor(p)
               /\ \A q \in WaitsFor(p) :
                    /\ p \notin WaitsFor(q)
                    /\ \A r \in WaitsFor(q) : p \notin WaitsFor(r))
    /\ \A c \in Workers :
          (sess[c].pc \notin {"idle", "done"}) ~> (sess[c].pc = "done")
    /\ (sim.pc = "flush") ~> (sim.pc = "wait")

\* A cancellation holds its booking row and waits for the flight row, which
\* a simulator pass holds while it waits for another flight row, which a
\* booking request holds.
C21_Witness ==
    /\ sess["c1"].pc = "cancel_flight"
    /\ WaitsFor("c1") = {SimOwner}
    /\ WaitsFor(SimOwner) = {"c2"}
    /\ InTransaction("c2")

\* C22: in the in-memory variant every flight keeps
\* 0 <= available_seats <= total_seats, and no two bookings share a
\* booking_id.
C22_MemSeatsWithinBounds ==
    /\ \A f \in FlightIds :
          /\ 0 <= mem_flights[f].available_seats
          /\ mem_flights[f].available_seats <= mem_flights[f].total_seats
    /\ \A i, j \in DOMAIN mem_bookings :
          i # j => mem_bookings[i].booking_id # mem_bookings[j].booking_id

\* A request for a negative number of seats has been booked.
C22_Witness ==
    \E i \in DOMAIN mem_bookings : mem_bookings[i].seats < 0
====
